---- MODULE Spec2Model ----
(***************************************************************************)
(* Uber Ride Cancellation Predictor App (Uber_Ride_Cancellation_App.py).   *)
(*                                                                         *)
(* The program is one Dash callback, predict_cancellation, over a form of  *)
(* 16 controls, a button and five output slots, plus the model pipeline    *)
(* loaded once when the module is imported.                                *)
(*                                                                         *)
(* Encoding of values                                                      *)
(*   - Python None is the empty tuple <<>>; a value v of something that    *)
(*     can also be None is the 1-tuple <<v>> (n_clicks, pipeline, the      *)
(*     value of a dropdown, the request in flight).                        *)
(*   - A probability is an exact fraction <<num, den>> with 0 <= num <=    *)
(*     den; it stands for the double nearest to num/den.                   *)
(*   - The bar value is kept in hundredths of a percent (7300 is 73.0),    *)
(*     so that rounding to 2 decimals is integer arithmetic.               *)
(***************************************************************************)
EXTENDS Integers, Sequences, FiniteSets, TLC

VARIABLES
    pipeline,   \* module global: None, or the loaded pipeline
    form,       \* current 'value' property of the 16 input controls
    n_clicks,   \* 'n_clicks' property of btn-predict
    outputs,    \* the five output slots as displayed
    pc,         \* "layout": page served, no callback run yet;
                \* "pending": a callback request is being handled;
                \* "idle": the last request has been answered
    request,    \* the callback request last sent (None before): its positional
                \* arguments and, as history, the form they were read from
    proba,      \* history: what predict_proba was given and did in the call
                \* made by the handler run last completed (None: not called)
    calls,      \* history: number of predict_proba calls made so far
    edits,      \* number of control edits made so far (bounded)
    memo        \* history: one earlier completed handler run kept for
                \* comparison with later ones (None: nothing kept; only
                \* SpecMemo keeps one)

vars == <<pipeline, form, n_clicks, outputs, pc, request, proba, calls, edits, memo>>

None == <<>>

Some(v) == <<v>>

----------------------------------------------------------------------------
(* Bounds of the model *)

\* number of button clicks explored
MaxClicks == 3

\* number of control edits explored
MaxEdits == 1

\* resolution of the probability grid used for the mapping: k / ProbGrid
ProbGrid == 1600

----------------------------------------------------------------------------
(* Section 1: the model artifact *)

MODEL_FILE == "cancellation_model_pipeline.joblib"

\* lines 11-16: the global is the loaded pipeline if the file exists, else None
LoadPipeline(exists) == IF exists THEN Some(MODEL_FILE) ELSE None

----------------------------------------------------------------------------
(* Section 2 and 4: input options and the layout *)

\* ids of the controls the callback reads as State
ControlIds == {"vehicle_type", "weather_condition", "pickup_zone", "drop_zone",
               "customer_patience", "historical_rating", "arrival_time", "distance",
               "cost", "temp", "hour", "humidity", "precip", "day", "month", "day_of_month"}

\* the value= each control is given in app.layout
LayoutForm ==
    [vehicle_type      |-> Some("Auto"),
     weather_condition |-> Some("Clear"),
     pickup_zone       |-> Some("Gurgaon"),
     drop_zone         |-> Some("South Delhi"),
     customer_patience |-> Some("patient"),
     historical_rating |-> Some("No Prior Rating"),
     arrival_time      |-> 5,
     distance          |-> 10,
     cost              |-> 300,
     temp              |-> 30,
     hour              |-> 18,
     humidity          |-> 50,
     precip            |-> 0,
     day               |-> Some("Monday"),
     month             |-> 6,
     day_of_month      |-> 15]

\* The values a user can give a control through the page.  A dcc.Dropdown
\* offers its options and, being clearable unless clearable=False is passed,
\* the cleared value None; the model keeps the layout's option, one other
\* option and None.  A dcc.Slider offers min..max in steps; the model keeps
\* the layout's value and max.  The controls of the "Hidden defaults" Div
\* (display: none) cannot be reached and keep their layout value.
Choices(id) ==
    CASE id = "vehicle_type"      -> {Some("Auto"), Some("Bike"), None}
      [] id = "weather_condition" -> {Some("Clear"), Some("Rain"), None}
      [] id = "pickup_zone"       -> {Some("Gurgaon"), Some("South Delhi"), None}
      [] id = "drop_zone"         -> {Some("South Delhi"), Some("Gurgaon"), None}
      [] id = "customer_patience" -> {Some("patient"), Some("very_impatient"), None}
      [] id = "historical_rating" -> {Some("No Prior Rating"), Some("Historically Good"), None}
      [] id = "arrival_time"      -> {5, 60}
      [] id = "distance"          -> {10, 50}
      [] id = "cost"              -> {300, 2000}
      [] id = "temp"              -> {30, 50}
      [] OTHER                    -> {}

\* the five output slots as app.layout renders them, before any callback
LayoutOutputs ==
    [children  |-> "",
     className |-> "text-center display-4 my-4",
     value     |-> 0,
     color     |-> "",
     caption   |-> ""]

----------------------------------------------------------------------------
(* Section 5: the callback *)

\* lines 148-163: the State list of the decorator, in order
StateOrder ==
    <<"vehicle_type", "weather_condition", "pickup_zone", "drop_zone",
      "customer_patience", "historical_rating", "arrival_time", "distance",
      "cost", "temp", "hour", "humidity", "precip", "day", "month", "day_of_month">>

\* lines 147-163: the positional arguments Dash calls the function with:
\* the Input value, then the State values in the order they are listed
CallbackArgs(clicks, f) == <<clicks>> \o [i \in 1..Len(StateOrder) |-> f[StateOrder[i]]]

\* lines 165-166: the parameter list, bound positionally
Params(a) ==
    [n_clicks |-> a[1],
     v_type   |-> a[2],  weather |-> a[3],  pickup |-> a[4],  drop |-> a[5],
     patience |-> a[6],  rating  |-> a[7],
     arrival  |-> a[8],  dist    |-> a[9],  cost   |-> a[10], temp |-> a[11],
     hour     |-> a[12], hum     |-> a[13], prec   |-> a[14], day  |-> a[15],
     month    |-> a[16], dom     |-> a[17]]

\* variant of line 168: "if n_clicks is None", 0 taken for a click
Truthy_NotNone(clicks) == clicks # None

\* line 168: Python truthiness of n_clicks: None and 0 are falsy
Truthy(clicks) == clicks # None /\ clicks[1] # 0

\* variant of lines 183-184: pickup and drop exchanged
InputData_Swapped(p) ==
    [vehicle_arrival_time |-> p.arrival,
     distance             |-> p.dist,
     ride_cost            |-> p.cost,
     temperature          |-> p.temp,
     humidity             |-> p.hum,
     precipitation_mm     |-> p.prec,
     vehicle_type         |-> p.v_type,
     customer_patience    |-> p.patience,
     pickup_zone          |-> p.drop,
     drop_zone            |-> p.pickup,
     historical_customer_rating_binned |-> p.rating,
     hour                 |-> p.hour,
     day                  |-> p.day,
     month                |-> p.month,
     day_of_month         |-> p.dom,
     weather_condition    |-> p.weather]

\* lines 174-191: the single row of the DataFrame given to predict_proba
InputData(p) ==
    [vehicle_arrival_time |-> p.arrival,
     distance             |-> p.dist,
     ride_cost            |-> p.cost,
     temperature          |-> p.temp,
     humidity             |-> p.hum,
     precipitation_mm     |-> p.prec,
     vehicle_type         |-> p.v_type,
     customer_patience    |-> p.patience,
     pickup_zone          |-> p.pickup,
     drop_zone            |-> p.drop,
     historical_customer_rating_binned |-> p.rating,
     hour                 |-> p.hour,
     day                  |-> p.day,
     month                |-> p.month,
     day_of_month         |-> p.dom,
     weather_condition    |-> p.weather]

\* variant of line 195: the percentage cut off after 2 decimals, not rounded
Round2Pct_Truncate(prob) == (prob[1] * 10000) \div prob[2]

\* variant of line 195: round(prob, 2), the factor 100 forgotten
Round2Pct_NoScale(prob) ==
    LET q == (prob[1] * 100) \div prob[2]
        r == (prob[1] * 100) % prob[2]
    IN  IF 2 * r < prob[2] \/ (2 * r = prob[2] /\ q % 2 = 0) THEN q ELSE q + 1

\* line 195: round(prob * 100, 2), in hundredths of a percent.  Python rounds
\* the exact value of the double to the nearest 2-decimal number, an exact
\* tie going to the even neighbour.
Round2Pct(prob) ==
    LET x == prob[1] * 10000
        q == x \div prob[2]
        r == x % prob[2]
    IN  IF 2 * r < prob[2] THEN q
        ELSE IF 2 * r > prob[2] THEN q + 1
        ELSE IF q % 2 = 0 THEN q ELSE q + 1

\* line 207: how the f-string prints the rounded float: the shortest decimal
\* that reads back as it, with at least one digit after the point
FloatStr(h) ==
    LET frac == h % 100
    IN  ToString(h \div 100) \o "." \o
        (IF frac % 10 = 0 THEN ToString(frac \div 10)
         ELSE IF frac < 10 THEN "0" \o ToString(frac)
         ELSE ToString(frac))

\* line 196
threshold == <<1, 2>>

\* variant of line 198: prob > threshold, the boundary excluded
AtLeast_Strict(prob, t) == prob[1] * t[2] > t[1] * prob[2]

\* line 198: prob >= threshold, on exact fractions
AtLeast(prob, t) == prob[1] * t[2] >= t[1] * prob[2]

\* variant of lines 194-207: while an Error is on display it is returned
\* again instead of the new result (a module-level "last error" never cleared)
MapProb_Sticky(prob) ==
    IF outputs.children = "Error"
    THEN <<outputs.children, outputs.className, outputs.value, outputs.color, outputs.caption>>
    ELSE LET prob_pct == Round2Pct(prob)
         IN  IF AtLeast(prob, threshold)
             THEN <<"Cancelled", "text-center text-danger font-weight-bold",
                    prob_pct, "danger", FloatStr(prob_pct) \o "% Risk">>
             ELSE <<"Not Cancelled", "text-center text-success font-weight-bold",
                    prob_pct, "success", FloatStr(prob_pct) \o "% Risk">>

\* lines 195-207: the body of the try block after predict_proba has returned
MapProb(prob) ==
    LET prob_pct == Round2Pct(prob)
    IN  IF AtLeast(prob, threshold)
        THEN <<"Cancelled", "text-center text-danger font-weight-bold",
               prob_pct, "danger", FloatStr(prob_pct) \o "% Risk">>
        ELSE <<"Not Cancelled", "text-center text-success font-weight-bold",
               prob_pct, "success", FloatStr(prob_pct) \o "% Risk">>

\* variant of line 210: the description of the fault dropped
Failed_NoDescription(e) == <<"Error", "text-danger", 0, "danger", "Prediction failed">>

\* variant of line 210: the fault swallowed and the display reset
Failed_Reset(e) == <<"Ready", "text-center text-muted", 0, "info", "Click Predict to start">>

\* lines 209-210: the except branch; e is str(e) of the exception raised
Failed(e) == <<"Error", "text-danger", 0, "danger", "Prediction failed: " \o e>>

\* lines 168-169
Ready == <<"Ready", "text-center text-muted", 0, "info", "Click Predict to start">>

\* lines 171-172
NotFound == <<"Error", "text-danger", 0, "danger", "Model file not found.">>

\* variant of lines 171-172: the check of the global left out
predict_cancellation_NoGuard(pl, a, resp) ==
    LET p == Params(a)
    IN  IF ~Truthy(p.n_clicks) THEN [ret |-> Ready, scored |-> None, pipeline |-> pl]
        ELSE LET input_data == InputData(p)
             IN  IF resp[1] = "ok"
                 THEN [ret |-> MapProb(resp[2]), scored |-> Some(input_data), pipeline |-> pl]
                 ELSE [ret |-> Failed(resp[2]), scored |-> Some(input_data), pipeline |-> pl]

\* variant of lines 209-210: the except branch also discards the pipeline
\* ("global pipeline; pipeline = None")
predict_cancellation_DropsModel(pl, a, resp) ==
    LET p == Params(a)
    IN  IF ~Truthy(p.n_clicks) THEN [ret |-> Ready, scored |-> None, pipeline |-> pl]
        ELSE IF pl = None THEN [ret |-> NotFound, scored |-> None, pipeline |-> pl]
        ELSE LET input_data == InputData(p)
             IN  IF resp[1] = "ok"
                 THEN [ret |-> MapProb(resp[2]), scored |-> Some(input_data), pipeline |-> pl]
                 ELSE [ret |-> Failed(resp[2]), scored |-> Some(input_data), pipeline |-> None]

\* lines 165-210: one run of the function on arguments a with the global
\* pipeline pl.  resp is what pipeline.predict_proba does if it is called:
\* <<"ok", prob>> returns, <<"raise", e>> raises.  The result is the tuple
\* returned, the DataFrame predict_proba was called with (None: no call) and
\* the global as the run leaves it: the function only reads it.
predict_cancellation(pl, a, resp) ==
    LET p == Params(a)
    IN  IF ~Truthy(p.n_clicks) THEN [ret |-> Ready, scored |-> None, pipeline |-> pl]
        ELSE IF pl = None THEN [ret |-> NotFound, scored |-> None, pipeline |-> pl]
        ELSE LET input_data == InputData(p)
             IN  IF resp[1] = "ok"
                 THEN [ret |-> MapProb(resp[2]), scored |-> Some(input_data), pipeline |-> pl]
                 ELSE [ret |-> Failed(resp[2]), scored |-> Some(input_data), pipeline |-> pl]

\* lines 142-146: the Output list, which the returned tuple fills in order
SetOutputs(ret) ==
    [children  |-> ret[1],
     className |-> ret[2],
     value     |-> ret[3],
     color     |-> ret[4],
     caption   |-> ret[5]]

----------------------------------------------------------------------------
(* The model pipeline seen from the callback: predict_proba either returns  *)
(* a probability or raises.                                                 *)

RECURSIVE Gcd(_, _)
Gcd(a, b) == IF b = 0 THEN a ELSE Gcd(b, a % b)

RECURSIVE IsPow2(_)
IsPow2(n) == n = 1 \/ (n > 1 /\ n % 2 = 0 /\ IsPow2(n \div 2))

\* num/den is a binary fraction, so a double holds it exactly
IsDyadic(prob) == IsPow2(prob[2] \div Gcd(prob[1], prob[2]))

\* num/den * 100 lies exactly half way between two 2-decimal numbers
IsTie(prob) == 2 * ((prob[1] * 10000) % prob[2]) = prob[2]

\* The fractions that determine what line 195 yields for the double nearest
\* to them.  Off a tie the double and the fraction round alike (they differ
\* by far less than their distance to a tie); on a tie they do so only when
\* the double is the fraction itself.  A tie that no double holds is left
\* out: which way its nearest double rounds is not a property of the fraction.
Exact(prob) == IsTie(prob) => IsDyadic(prob)

\* probabilities named in the specification's scenarios and the boundary cases
ProbSamples == {<<0, 1>>, <<49999, 100000>>, <<1, 2>>, <<73, 100>>, <<1, 1>>}

\* the grid k / ProbGrid and some values off it
ProbGridSet ==
    {prob \in {<<k, ProbGrid>> : k \in 0..ProbGrid} : Exact(prob)}
        \cup ProbSamples
        \cup {<<4567, 10000>>, <<1, 32>>, <<15, 32>>, <<50004, 100000>>, <<99999, 100000>>}

\* str(e) of the exceptions predict_proba may raise
Faults == {"malformed record", "internal model error"}

Responses(probs) == {<<"ok", prob>> : prob \in probs} \cup {<<"raise", e>> : e \in Faults}

----------------------------------------------------------------------------
(* State machine *)

\* what one completed handler run was given and showed, for later comparison
Observation(a, res, resp) ==
    [clicks   |-> a[1],
     truthy   |-> Truthy(a[1]),
     state    |-> SubSeq(a, 2, Len(a)),
     resp     |-> IF res.scored = None THEN None ELSE Some(resp),
     pipeline |-> pipeline,
     ret      |-> res.ret]

\* lines 11-16 and 33-138: the module has been imported and the page served
Init ==
    /\ pipeline \in {LoadPipeline(exists) : exists \in BOOLEAN}
    /\ form = LayoutForm
    /\ n_clicks \in {None, Some(0)}
    /\ outputs = LayoutOutputs
    /\ pc = "layout"
    /\ request = None
    /\ proba = None
    /\ calls = 0
    /\ edits = 0
    /\ memo = None

\* Dash runs the callback once when the page has loaded, with the
\* properties of the layout
PageLoad ==
    /\ pc = "layout"
    /\ request' = Some([args |-> CallbackArgs(n_clicks, form), form |-> form])
    /\ pc' = "pending"
    /\ UNCHANGED <<pipeline, form, n_clicks, outputs, proba, calls, edits, memo>>

\* the user changes the value of a control; nothing is sent (State, not Input)
Edit(id, v) ==
    /\ pc # "layout"
    /\ edits < MaxEdits
    /\ v \in Choices(id)
    /\ form[id] # v
    /\ form' = [form EXCEPT ![id] = v]
    /\ edits' = edits + 1
    /\ UNCHANGED <<pipeline, n_clicks, outputs, pc, request, proba, calls, memo>>

\* the user clicks "Predict Now": n_clicks goes up by one and the callback
\* is requested with the current values of the controls
Click ==
    /\ pc = "idle"
    /\ (IF n_clicks = None THEN 0 ELSE n_clicks[1]) < MaxClicks
    /\ n_clicks' = Some((IF n_clicks = None THEN 0 ELSE n_clicks[1]) + 1)
    /\ request' = Some([args |-> CallbackArgs(n_clicks', form), form |-> form])
    /\ pc' = "pending"
    /\ UNCHANGED <<pipeline, form, outputs, proba, calls, edits, memo>>

\* lines 165-210: the server runs predict_cancellation on the request and
\* the page shows what it returns
Handle(resp, keep) ==
    /\ pc = "pending"
    /\ LET a   == request[1].args
           res == predict_cancellation(pipeline, a, resp)
       IN  /\ outputs' = SetOutputs(res.ret)
           /\ proba' = IF res.scored = None THEN None
                       ELSE Some([X |-> res.scored[1], resp |-> resp])
           /\ calls' = IF res.scored = None THEN calls ELSE calls + 1
           /\ memo' = IF keep /\ memo = None THEN Some(Observation(a, res, resp)) ELSE memo
           /\ pipeline' = res.pipeline
    /\ pc' = "idle"
    /\ UNCHANGED <<form, n_clicks, request, edits>>

\* the handler run of the request in flight, whatever predict_proba does
HandleAny == \E resp \in Responses(ProbSamples) : Handle(resp, FALSE)

Next ==
    \/ PageLoad
    \/ \E id \in ControlIds : \E v \in Choices(id) : Edit(id, v)
    \/ Click
    \/ HandleAny

Spec == Init /\ [][Next]_vars

TypeOK ==
    /\ pipeline \in {None, Some(MODEL_FILE)}
    /\ DOMAIN form = ControlIds
    /\ \A id \in ControlIds : form[id] = LayoutForm[id] \/ form[id] \in Choices(id)
    /\ n_clicks \in {None} \cup {Some(k) : k \in 0..MaxClicks}
    /\ DOMAIN outputs = {"children", "className", "value", "color", "caption"}
    /\ outputs.value \in 0..10000
    /\ pc \in {"layout", "pending", "idle"}
    /\ (request = None) = (pc = "layout")
    /\ calls \in 0..MaxClicks
    /\ edits \in 0..MaxEdits

\* The same machine with one completed handler run of the past kept in memo,
\* chosen freely, so that a later run can be set against it.  The edits are
\* those of one dropdown and one slider.
HandleKeeping == \E resp \in Responses(ProbSamples) : \E keep \in BOOLEAN : Handle(resp, keep)

NextMemo ==
    \/ PageLoad
    \/ \E id \in {"vehicle_type", "cost"} : \E v \in Choices(id) : Edit(id, v)
    \/ Click
    \/ HandleKeeping

SpecMemo == Init /\ [][NextMemo]_vars

\* The mapping of a probability to the outputs, over the probability grid:
\* the page loads, the button is clicked once, and predict_proba answers
\* with any probability of the grid (or raises).
ClickFirst == ~Truthy(n_clicks) /\ Click

NextMap ==
    \/ PageLoad
    \/ ClickFirst
    \/ \E resp \in Responses(ProbGridSet) : Handle(resp, FALSE)

SpecMap == Init /\ [][NextMap]_vars

\* the server answers every request it has accepted
FairSpec == Spec /\ WF_vars(HandleAny)

----------------------------------------------------------------------------
(* Vocabulary of the properties *)

\* the request last sent was a trigger: a click, not the page's own first call
Triggered == request # None /\ request[1].args[1] # None /\ request[1].args[1][1] >= 1

\* the handler has answered the request last sent
Answered == pc = "idle"

\* the handler run last completed called predict_proba, which returned prob
Scored == Answered /\ proba # None /\ proba[1].resp[1] = "ok"

\* the handler run last completed called predict_proba, which raised
Faulted == Answered /\ proba # None /\ proba[1].resp[1] = "raise"

\* the displayed states of the trigger state machine
ShowsIdle == outputs.children = "Ready" /\ outputs.value = 0 /\ outputs.color = "info"

ShowsError == outputs.children = "Error" /\ outputs.value = 0 /\ outputs.color = "danger"

ShowsResult ==
    \/ outputs.children = "Cancelled" /\ outputs.color = "danger"
    \/ outputs.children = "Not Cancelled" /\ outputs.color = "success"

\* a number of hundredths written as Python writes the float: 7300 is "73.0",
\* 4567 is "45.67", 5 is "0.05"
Shown(h) ==
    LET tens == (h % 100) \div 10
        ones == h % 10
    IN  ToString(h \div 100) \o "." \o ToString(tens) \o (IF ones = 0 THEN "" ELSE ToString(ones))

Abs(n) == IF n < 0 THEN -n ELSE n

----------------------------------------------------------------------------
(* C1 *)

\* C1: whenever scoring returned a probability p, p >= 0.5 (0.5 included)
\* shows "Cancelled" with color "danger" and p < 0.5 shows "Not Cancelled"
\* with color "success"; no other text/color pair follows a successful score.
C1_ThresholdMapping ==
    Scored =>
        LET prob == proba[1].resp[2]
        IN  IF 2 * prob[1] >= prob[2]
            THEN outputs.children = "Cancelled" /\ outputs.color = "danger"
            ELSE outputs.children = "Not Cancelled" /\ outputs.color = "success"

\* the boundary p = 0.5 has been scored and shows Cancelled / danger
C1_Witness ==
    /\ Scored
    /\ proba[1].resp[2] = <<1, 2>>
    /\ outputs.children = "Cancelled"
    /\ outputs.color = "danger"

----------------------------------------------------------------------------
(* C6 *)

\* C6: on a successful score with probability p the bar value is p * 100
\* rounded to 2 decimals (the nearest 2-decimal number, an exact tie going to
\* the even one), it lies in 0..100, and the caption is that value followed
\* by "% Risk".
C6_RoundedPercentage ==
    Scored =>
        LET prob == proba[1].resp[2]
            h    == outputs.value
            off  == Abs(h * prob[2] - 10000 * prob[1])
        IN  /\ h \in 0..10000
            /\ 2 * off <= prob[2]
            /\ (2 * off = prob[2] => h % 2 = 0)
            /\ outputs.caption = Shown(h) \o "% Risk"

\* p = 0.4567 has been scored and shows 45.67 with caption "45.67% Risk"
C6_Witness ==
    /\ Scored
    /\ proba[1].resp[2] = <<4567, 10000>>
    /\ outputs.value = 4567
    /\ outputs.caption = "45.67% Risk"

\* p = 0.73 shows 73.0, and the exact tie 15/32 (46.875) goes to 46.88
C6_Examples ==
    /\ (Scored /\ proba[1].resp[2] = <<73, 100>>)
           => (outputs.value = 7300 /\ outputs.caption = "73.0% Risk")
    /\ (Scored /\ proba[1].resp[2] = <<15, 32>>)
           => (outputs.value = 4688 /\ outputs.caption = "46.88% Risk")
    /\ (Scored /\ proba[1].resp[2] = <<1, 32>>)
           => (outputs.value = 312 /\ outputs.caption = "3.12% Risk")

----------------------------------------------------------------------------
(* C10 *)

\* C10: the outcome is decided on the unrounded probability and the
\* percentage is rounded, yet "Cancelled" never shows less than 50.00 and
\* "Not Cancelled" never shows more than 50.00.
C10_OutcomeConsistentWithPercentage ==
    Scored =>
        /\ outputs.children = "Cancelled" => outputs.value >= 5000
        /\ outputs.children = "Not Cancelled" => outputs.value <= 5000

\* p = 0.49999, just below the threshold, shows "Not Cancelled" at 50.0
C10_Witness ==
    /\ Scored
    /\ proba[1].resp[2] = <<49999, 100000>>
    /\ outputs.children = "Not Cancelled"
    /\ outputs.value = 5000
    /\ outputs.caption = "50.0% Risk"

----------------------------------------------------------------------------
(* C2 *)

\* C2: with the model artifact absent at startup, every trigger shows
\* "Error", color "danger", bar value 0 and "Model file not found.",
\* predict_proba is never called, and the pipeline stays None for good.
C2_ModelUnavailable ==
    /\ [](pipeline = None =>
            /\ calls = 0
            /\ proba = None
            /\ (Triggered /\ Answered) =>
                   /\ outputs.children = "Error"
                   /\ outputs.color = "danger"
                   /\ outputs.value = 0
                   /\ outputs.caption = "Model file not found.")
    /\ [][pipeline = None => pipeline' = None]_vars

\* without the model, the second trigger has been answered with the message
C2_Witness ==
    /\ pipeline = None
    /\ n_clicks = Some(2)
    /\ Triggered /\ Answered
    /\ outputs.caption = "Model file not found."
    /\ edits > 0

----------------------------------------------------------------------------
(* C3 *)

\* C3: a fault raised by scoring ends the trigger in the Error display with
\* the caption "Prediction failed: <description>"; the handler has returned,
\* the pipeline is still loaded and the next click is accepted.
C3_FaultCaught ==
    Faulted =>
        /\ outputs.children = "Error"
        /\ outputs.value = 0
        /\ outputs.color = "danger"
        /\ outputs.caption = "Prediction failed: " \o proba[1].resp[2]
        /\ pipeline # None
        /\ (n_clicks[1] < MaxClicks => ENABLED Click)

\* a trigger that failed has been followed by one that shows a result
C3_Witness ==
    /\ memo # None
    /\ memo[1].clicks = Some(1)
    /\ memo[1].resp # None
    /\ memo[1].resp[1][1] = "raise"
    /\ n_clicks = Some(2)
    /\ Scored
    /\ ShowsResult

----------------------------------------------------------------------------
(* C4 *)

\* the fields of the record that hold a dropdown's value, which can be None
\* (the numeric fields come from sliders and the hidden inputs)
NullableFields ==
    {"vehicle_type", "customer_patience", "pickup_zone", "drop_zone",
     "historical_customer_rating_binned", "day", "weather_condition"}

\* C4: predict_proba is never called with a record in which a field is
\* missing or null, also after a dropdown has been cleared.
C4_RecordFullyPopulated ==
    (Answered /\ proba # None) =>
        /\ DOMAIN proba[1].X = NullableFields \cup
               {"vehicle_arrival_time", "distance", "ride_cost", "temperature", "humidity",
                "precipitation_mm", "hour", "month", "day_of_month"}
        /\ \A f \in NullableFields : proba[1].X[f] # None

----------------------------------------------------------------------------
(* C5 *)

C5_WitnessLoaded ==
    /\ n_clicks = None
    /\ pipeline # None
    /\ Answered
    /\ ShowsIdle

----------------------------------------------------------------------------
(* C7 *)

\* the handler run last completed had the same inputs as the run kept in
\* memo: the same form values, n_clicks given or not alike, and the same
\* answer of predict_proba (or no call in either)
SameInputsAsMemo ==
    /\ memo # None
    /\ Answered
    /\ SubSeq(request[1].args, 2, Len(request[1].args)) = memo[1].state
    /\ (request[1].args[1] \in {None, Some(0)}) = ~memo[1].truthy
    /\ IF proba = None THEN memo[1].resp = None
       ELSE memo[1].resp = Some(proba[1].resp)

\* C7: a handler run with the same form values and the same model output as
\* any earlier run shows the same five outputs, however many triggers and
\* whichever results came in between; the pipeline is the one of the
\* earlier run.
C7_ResultDependsOnInputsOnly ==
    /\ memo # None => pipeline = memo[1].pipeline
    /\ SameInputsAsMemo =>
           /\ outputs.children = memo[1].ret[1]
           /\ outputs.className = memo[1].ret[2]
           /\ outputs.value = memo[1].ret[3]
           /\ outputs.color = memo[1].ret[4]
           /\ outputs.caption = memo[1].ret[5]

\* the second trigger repeated the inputs and the model output of the first
C7_Witness ==
    /\ SameInputsAsMemo
    /\ memo[1].clicks = Some(1)
    /\ request[1].args[1] = Some(2)
    /\ Scored
    /\ outputs.children = memo[1].ret[1]

----------------------------------------------------------------------------
(* C8 *)

HandlingEnds == pc = "pending" ~> pc = "idle"

----------------------------------------------------------------------------
(* C9 *)

\* C9: the record given to predict_proba carries, field by field, the value
\* its own control had when the callback was requested.
C9_RecordMirrorsControls ==
    (Answered /\ proba # None) =>
        LET X == proba[1].X
            f == request[1].form
        IN  /\ X.vehicle_arrival_time = f.arrival_time
            /\ X.distance = f.distance
            /\ X.ride_cost = f.cost
            /\ X.temperature = f.temp
            /\ X.humidity = f.humidity
            /\ X.precipitation_mm = f.precip
            /\ X.vehicle_type = f.vehicle_type
            /\ X.customer_patience = f.customer_patience
            /\ X.pickup_zone = f.pickup_zone
            /\ X.drop_zone = f.drop_zone
            /\ X.historical_customer_rating_binned = f.historical_rating
            /\ X.hour = f.hour
            /\ X.day = f.day
            /\ X.month = f.month
            /\ X.day_of_month = f.day_of_month
            /\ X.weather_condition = f.weather_condition

\* a record was scored after the vehicle type had been changed to Bike; it
\* carries the new value and the layout's values of the other controls
C9_Witness ==
    /\ Answered
    /\ proba # None
    /\ proba[1].X.vehicle_type = Some("Bike")
    /\ proba[1].X.pickup_zone = Some("Gurgaon")
    /\ proba[1].X.drop_zone = Some("South Delhi")
    /\ proba[1].X.month = 6
    /\ proba[1].X.day_of_month = 15

====
